---- MODULE Spec2Model ----
(***************************************************************************)
(* Preprocessing of a translation unit that includes                       *)
(* examples/CLKernels/SmartCL.h.                                           *)
(*                                                                         *)
(* The header is held as data (Directive), one entry per source line, and  *)
(* is executed line by line by the preprocessor actions below.  The        *)
(* translation unit around it is the environment: it may define and        *)
(* undefine macros, include the header any number of times, include        *)
(* <stdio.h> itself, and use the identifiers kernel / global / local in    *)
(* its text.                                                               *)
(***************************************************************************)
EXTENDS Integers, Sequences, FiniteSets, TLC

VARIABLES
    macros,     \* macro table: name -> definition record
    included,   \* files opened by #include <...>, in order
    disabled,   \* warning numbers currently disabled
    once,       \* SmartCL.h has been marked #pragma once
    where,      \* file being processed: "tu", "SmartCL.h", "windows.h", "stdio.h"
    line,       \* in SmartCL.h: the line to process next; in a system header:
                \* the line of the #include that opened it (0: opened by the tu)
    out,        \* tokens of the translation unit after preprocessing, each
                \* with the file whose text it comes from
    entry,      \* the preprocessor state when SmartCL.h was last entered
    lang,       \* the language the translation unit is compiled as, "unset"
                \* until the compiler proper runs
    outcome,    \* "pending" until the translation unit ends
    steps,      \* translation-unit items processed so far
    nIncl,      \* #include "SmartCL.h" directives seen so far
    uses,       \* occurrences of kernel / global / local seen so far
    refs        \* the qualifiers the translation unit's text has used while
                \* it had no definition of its own for them

vars == <<macros, included, disabled, once, where, line, out, entry, lang,
          outcome, steps, nIncl, uses, refs>>

(***************************************************************************)
(* Bounds                                                                  *)
(***************************************************************************)
MaxSteps == 3
MaxUses == 2

(***************************************************************************)
(* The header text                                                         *)
(***************************************************************************)
NumLines == 15

Qualifiers == {"kernel", "global", "local"}
Names == {"_WINDOWS", "WIN32_LEAN_AND_MEAN"} \cup Qualifiers
SysHeaders == {"windows.h", "stdio.h"}

\* replacement list of line 9, one token per element
KernelBody == <<"extern", "\"C\"", "__declspec", "(", "dllexport", ")">>
EmptyBody == <<>>

VoidMainWarning == 4326

\* the warning numbers the model tracks: the header's and one other
Warnings == {VoidMainWarning, 4996}

Blank == [kind |-> "blank"]

\* SmartCL.h, line n
SmartCL_h(n) ==
    CASE n = 1  -> [kind |-> "pragma_once"]
      [] n = 3  -> [kind |-> "ifdef", name |-> "_WINDOWS"]
      [] n = 5  -> [kind |-> "define", name |-> "WIN32_LEAN_AND_MEAN",
                    form |-> "object", body |-> EmptyBody]
      [] n = 6  -> [kind |-> "include", file |-> "windows.h"]
      [] n = 7  -> [kind |-> "include", file |-> "stdio.h"]
      [] n = 9  -> [kind |-> "define", name |-> "kernel",
                    form |-> "object", body |-> KernelBody]
      [] n = 10 -> [kind |-> "define", name |-> "global",
                    form |-> "object", body |-> EmptyBody]
      [] n = 11 -> [kind |-> "define", name |-> "local",
                    form |-> "object", body |-> EmptyBody]
      [] n = 13 -> [kind |-> "pragma_warning", spec |-> "disable",
                    num |-> VoidMainWarning]
      [] n = 15 -> [kind |-> "endif"]
      [] OTHER  -> Blank

(***************************************************************************)
(* Faulty variants of the header text, each a slip the claims must detect  *)
(***************************************************************************)
\* line 9 without the linkage specification
HeaderKernelNoExternC(n) ==
    IF n = 9
    THEN [kind |-> "define", name |-> "kernel", form |-> "object",
          body |-> <<"__declspec", "(", "dllexport", ")">>]
    ELSE SmartCL_h(n)

\* line 10 mapping global to the OpenCL spelling instead of to nothing
HeaderGlobalNotEmpty(n) ==
    IF n = 10
    THEN [kind |-> "define", name |-> "global", form |-> "object",
          body |-> <<"__global">>]
    ELSE SmartCL_h(n)

\* #include <windows.h> written above the #ifdef (on line 2)
HeaderIncludeOutsideGroup(n) ==
    IF n = 2 THEN SmartCL_h(6)
    ELSE IF n = 6 THEN Blank
    ELSE SmartCL_h(n)

\* the warning restored on line 14, as a push / pop pair would do
HeaderWarningRestored(n) ==
    IF n = 14
    THEN [kind |-> "pragma_warning", spec |-> "default",
          num |-> VoidMainWarning]
    ELSE SmartCL_h(n)

\* lines 7 and 9 exchanged: kernel defined before <stdio.h> is read
HeaderKernelBeforeStdio(n) ==
    IF n = 7 THEN SmartCL_h(9)
    ELSE IF n = 9 THEN SmartCL_h(7)
    ELSE SmartCL_h(n)

\* lines 5 and 6 exchanged: <windows.h> read before WIN32_LEAN_AND_MEAN
HeaderLeanAfterWindows(n) ==
    IF n = 5 THEN SmartCL_h(6)
    ELSE IF n = 6 THEN SmartCL_h(5)
    ELSE SmartCL_h(n)

\* lines 11 and 15 exchanged: #define local written after the #endif
HeaderLocalOutsideGroup(n) ==
    IF n = 11 THEN SmartCL_h(15)
    ELSE IF n = 15 THEN SmartCL_h(11)
    ELSE SmartCL_h(n)

\* the line the preprocessor reads at position n of SmartCL.h
Directive(n) == SmartCL_h(n)

EOF == NumLines + 1

(***************************************************************************)
(* Preprocessor helpers                                                    *)
(***************************************************************************)
Undef == [def |-> FALSE, form |-> "none", body |-> <<>>, by |-> "none"]

Defined(form, body, by) ==
    [def |-> TRUE, form |-> form, body |-> body, by |-> by]

\* the #endif closing the #ifdef at line n (the header nests no conditionals)
MatchingEndif(n) ==
    CHOOSE m \in (n + 1)..NumLines :
        /\ Directive(m).kind = "endif"
        /\ \A k \in (n + 1)..(m - 1) : Directive(k).kind # "endif"

\* macro replacement of one identifier in source text (no tracked
\* replacement list names another tracked macro, so no rescan is needed)
Expand(id) ==
    IF macros[id].def /\ macros[id].form = "object"
    THEN macros[id].body
    ELSE <<id>>

\* the tokens an occurrence of id in the current file leaves in the output
Emit(id) ==
    [i \in 1..Len(Expand(id)) |-> [tok |-> Expand(id)[i], from |-> where]]

\* who defined a macro: the command line, the translation unit, the header
OwnDefinition == {"cmdline", "tu"}

Count(seq, x) == Cardinality({i \in 1..Len(seq) : seq[i] = x})

Snapshot ==
    [macros |-> macros, included |-> included, disabled |-> disabled,
     out |-> out]

(***************************************************************************)
(* Compilation of the preprocessed text                                    *)
(***************************************************************************)
Langs == {"cpp", "opencl"}

\* kernel, global and local are keywords of OpenCL C and plain identifiers
\* of C and C++
IsKeyword(l, tok) == l = "opencl" /\ tok \in Qualifiers

\* A qualifier left unreplaced in the translation unit's own text is an
\* undeclared identifier unless the language knows it as a keyword; the
\* names a system header uses are the header's own.  OpenCL C has no
\* <windows.h> or <stdio.h> to open.
Compile(toks, l, incl) ==
    IF \/ \E i \in 1..Len(toks) :
            /\ toks[i].from = "tu"
            /\ toks[i].tok \in Qualifiers
            /\ ~IsKeyword(l, toks[i].tok)
       \/ (l = "opencl" /\ incl # <<>>)
    THEN "error"
    ELSE "success"

(***************************************************************************)
(* Initial state: the compiler command line                                *)
(***************************************************************************)
Init ==
    /\ \E w \in BOOLEAN :
          macros = [n \in Names |->
                      IF n = "_WINDOWS" /\ w
                      THEN Defined("object", <<"1">>, "cmdline")
                      ELSE Undef]
    /\ included = <<>>
    /\ disabled \in SUBSET Warnings
    /\ once = FALSE
    /\ where = "tu"
    /\ line = 0
    /\ out = <<>>
    /\ entry = [macros |-> macros, included |-> <<>>, disabled |-> disabled,
                out |-> <<>>]
    /\ lang = "unset"
    /\ outcome = "pending"
    /\ steps = 0
    /\ nIncl = 0
    /\ uses = 0
    /\ refs = {}

(***************************************************************************)
(* The translation unit (where = "tu")                                     *)
(***************************************************************************)
InTU == where = "tu" /\ outcome = "pending" /\ steps < MaxSteps

\* #include "SmartCL.h": a file marked #pragma once is not opened again
TUIncludeSmartCL ==
    /\ InTU
    /\ steps' = steps + 1
    /\ nIncl' = nIncl + 1
    /\ IF once
       THEN UNCHANGED <<where, line, entry>>
       ELSE /\ where' = "SmartCL.h"
            /\ line' = 1
            /\ entry' = Snapshot
    /\ UNCHANGED <<macros, included, disabled, once, out, lang, outcome, uses,
                   refs>>

\* #include <stdio.h> written in the translation unit itself
TUIncludeStdio ==
    /\ InTU
    /\ steps' = steps + 1
    /\ included' = Append(included, "stdio.h")
    /\ where' = "stdio.h"
    /\ line' = 0
    /\ UNCHANGED <<macros, disabled, once, out, entry, lang, outcome, nIncl,
                   uses, refs>>

\* the translation unit's own #define of a tracked name
TUDefine(n) ==
    /\ InTU
    /\ steps' = steps + 1
    /\ macros' = [macros EXCEPT ![n] = Defined("object", <<"tu_" \o n>>, "tu")]
    /\ UNCHANGED <<included, disabled, once, where, line, out, entry, lang,
                   outcome, nIncl, uses, refs>>

\* the translation unit's own #undef of a tracked name
TUUndef(n) ==
    /\ InTU
    /\ macros[n].def
    /\ steps' = steps + 1
    /\ macros' = [macros EXCEPT ![n] = Undef]
    /\ UNCHANGED <<included, disabled, once, where, line, out, entry, lang,
                   outcome, nIncl, uses, refs>>

\* the identifier id occurs in the translation unit's text
TUUse(id) ==
    /\ InTU
    /\ uses < MaxUses
    /\ steps' = steps + 1
    /\ uses' = uses + 1
    /\ out' = out \o Emit(id)
    /\ refs' = IF macros[id].by \in OwnDefinition THEN refs ELSE refs \cup {id}
    /\ UNCHANGED <<macros, included, disabled, once, where, line, entry, lang,
                   outcome, nIncl>>

\* end of the translation unit: the preprocessed text is compiled
TUEnd ==
    /\ where = "tu"
    /\ outcome = "pending"
    /\ \E l \in Langs :
          /\ lang' = l
          /\ outcome' = Compile(out, l, included)
    /\ UNCHANGED <<macros, included, disabled, once, where, line, out, entry,
                   steps, nIncl, uses, refs>>

(***************************************************************************)
(* SmartCL.h (where = "SmartCL.h"), one action per kind of line            *)
(***************************************************************************)
InHeader(kind) ==
    where = "SmartCL.h" /\ line \in 1..NumLines /\ Directive(line).kind = kind

\* faulty variant: line 1 has no effect
PragmaOnceIgnored ==
    /\ InHeader("pragma_once")
    /\ line' = line + 1
    /\ UNCHANGED <<macros, included, disabled, once, where, out, entry, lang,
                   outcome, steps, nIncl, uses, refs>>

\* line 1: #pragma once
PragmaOnce ==
    /\ InHeader("pragma_once")
    /\ once' = TRUE
    /\ line' = line + 1
    /\ UNCHANGED <<macros, included, disabled, where, out, entry, lang,
                   outcome, steps, nIncl, uses, refs>>

\* lines 2, 4, 8, 12, 14: nothing but white space
BlankLine ==
    /\ InHeader("blank")
    /\ line' = line + 1
    /\ UNCHANGED <<macros, included, disabled, once, where, out, entry, lang,
                   outcome, steps, nIncl, uses, refs>>

\* faulty variant: line 3 read as #ifndef
IfdefNegated ==
    /\ InHeader("ifdef")
    /\ line' = IF ~macros[Directive(line).name].def
               THEN line + 1
               ELSE MatchingEndif(line)
    /\ UNCHANGED <<macros, included, disabled, once, where, out, entry, lang,
                   outcome, steps, nIncl, uses, refs>>

\* line 3: #ifdef _WINDOWS; a failed group is skipped up to its #endif
Ifdef ==
    /\ InHeader("ifdef")
    /\ line' = IF macros[Directive(line).name].def
               THEN line + 1
               ELSE MatchingEndif(line)
    /\ UNCHANGED <<macros, included, disabled, once, where, out, entry, lang,
                   outcome, steps, nIncl, uses, refs>>

\* lines 5, 9, 10, 11: #define; a redefinition replaces the old definition
Define ==
    /\ InHeader("define")
    /\ LET d == Directive(line)
       IN  macros' = [macros EXCEPT
                        ![d.name] = Defined(d.form, d.body, "header")]
    /\ line' = line + 1
    /\ UNCHANGED <<included, disabled, once, where, out, entry, lang, outcome,
                   steps, nIncl, uses, refs>>

\* lines 6, 7: #include <...>; line keeps the place to return to
Include ==
    /\ InHeader("include")
    /\ included' = Append(included, Directive(line).file)
    /\ where' = Directive(line).file
    /\ UNCHANGED <<macros, disabled, once, line, out, entry, lang, outcome,
                   steps, nIncl, uses, refs>>

\* line 13: #pragma warning (disable : 4326)
PragmaWarning ==
    /\ InHeader("pragma_warning")
    /\ disabled' = IF Directive(line).spec = "disable"
                   THEN disabled \cup {Directive(line).num}
                   ELSE disabled \ {Directive(line).num}
    /\ line' = line + 1
    /\ UNCHANGED <<macros, included, once, where, out, entry, lang, outcome,
                   steps, nIncl, uses, refs>>

\* line 15: #endif
Endif ==
    /\ InHeader("endif")
    /\ line' = line + 1
    /\ UNCHANGED <<macros, included, disabled, once, where, out, entry, lang,
                   outcome, steps, nIncl, uses, refs>>

\* past the last line: back to the translation unit
EndOfFile ==
    /\ where = "SmartCL.h"
    /\ line = EOF
    /\ where' = "tu"
    /\ line' = 0
    /\ UNCHANGED <<macros, included, disabled, once, out, entry, lang, outcome,
                   steps, nIncl, uses, refs>>

(***************************************************************************)
(* <windows.h> and <stdio.h> (where \in SysHeaders)                        *)
(***************************************************************************)
\* the system header's text names the identifier id; a system header is
\* guarded, so only its first processing has any text
SysMention(id) ==
    /\ where \in SysHeaders
    /\ Count(included, where) = 1
    /\ uses < MaxUses
    /\ uses' = uses + 1
    /\ out' = out \o Emit(id)
    /\ UNCHANGED <<macros, included, disabled, once, where, line, entry, lang,
                   outcome, steps, nIncl, refs>>

\* end of the system header: back to the file that included it
SysEnd ==
    /\ where \in SysHeaders
    /\ IF line = 0
       THEN where' = "tu" /\ line' = 0
       ELSE where' = "SmartCL.h" /\ line' = line + 1
    /\ UNCHANGED <<macros, included, disabled, once, out, entry, lang, outcome,
                   steps, nIncl, uses, refs>>

Next ==
    \/ TUIncludeSmartCL
    \/ TUIncludeStdio
    \/ \E n \in Names : TUDefine(n)
    \/ \E n \in Names : TUUndef(n)
    \/ \E id \in Qualifiers : TUUse(id)
    \/ TUEnd
    \/ PragmaOnce
    \/ BlankLine
    \/ Ifdef
    \/ Define
    \/ Include
    \/ PragmaWarning
    \/ Endif
    \/ EndOfFile
    \/ \E id \in Qualifiers : SysMention(id)
    \/ SysEnd

Spec == Init /\ [][Next]_vars

(***************************************************************************)
(* Properties                                                              *)
(***************************************************************************)
\* the end of SmartCL.h has been reached and the file is not yet left
AtExit == where = "SmartCL.h" /\ line = EOF

\* SmartCL.h has been processed and the translation unit goes on
Processed == where = "tu" /\ nIncl >= 1

\* _WINDOWS was defined when SmartCL.h was entered
EntryWin == entry.macros["_WINDOWS"].def

EmptyObject(q) ==
    macros[q].def /\ macros[q].form = "object" /\ macros[q].body = <<>>

\* C1: with _WINDOWS defined on entry, at the end of the header kernel is
\* an object-like macro whose replacement list is exactly
\* extern "C" __declspec(dllexport).
C1_KernelExpansion ==
    (AtExit /\ EntryWin) =>
        /\ macros["kernel"].def
        /\ macros["kernel"].form = "object"
        /\ macros["kernel"].body =
              <<"extern", "\"C\"", "__declspec", "(", "dllexport", ")">>

\* the end of the header, _WINDOWS defined, the translation unit having had
\* a definition of kernel of its own before the #include
C1_Witness ==
    /\ AtExit
    /\ EntryWin
    /\ entry.macros["kernel"].def
    /\ macros["kernel"].by = "header"

\* C2: with _WINDOWS defined on entry, at the end of the header global and
\* local are object-like macros with an empty replacement list, and as long
\* as the header's definitions stand an occurrence of either leaves no token.
C2_GlobalLocalEmpty ==
    /\ (AtExit /\ EntryWin) =>
          \A q \in {"global", "local"} : EmptyObject(q) /\ Expand(q) = <<>>
    /\ (Processed /\ EntryWin) =>
          \A q \in {"global", "local"} :
              macros[q].by = "header" => Expand(q) = <<>>

\* #include "SmartCL.h" followed by one use of a qualifier that left nothing
C2_Witness ==
    /\ Processed
    /\ EntryWin
    /\ steps = 2
    /\ uses = 1
    /\ refs # {}
    /\ out = <<>>

\* C3: with _WINDOWS undefined on entry the header changes nothing: while
\* it is processed the macro table, the included files, the disabled
\* warnings and the emitted tokens are those of its entry, and no system
\* header is entered from it.
C3_NoEffectWithoutWindows ==
    /\ (where = "SmartCL.h" /\ ~EntryWin) =>
          /\ macros = entry.macros
          /\ included = entry.included
          /\ disabled = entry.disabled
          /\ out = entry.out
    /\ (where \in SysHeaders /\ line # 0) => EntryWin

\* the end of the header, _WINDOWS undefined, a definition of kernel made
\* by the translation unit still in place
C3_Witness ==
    /\ AtExit
    /\ ~EntryWin
    /\ macros["kernel"].def
    /\ macros["kernel"].by = "tu"

\* a qualifier the translation unit referenced has no definition of its own
\* and the header was included with _WINDOWS undefined
C4_Case ==
    /\ outcome # "pending"
    /\ nIncl >= 1
    /\ ~EntryWin
    /\ refs # {}

C5_IncludesIffWindows ==
    AtExit =>
        included = entry.included \o
                      (IF EntryWin THEN <<"windows.h", "stdio.h">> ELSE <<>>)

\* the end of the header, _WINDOWS defined, <stdio.h> already included by
\* the translation unit before
C5_Witness ==
    /\ AtExit
    /\ EntryWin
    /\ entry.included = <<"stdio.h">>
    /\ Count(included, "stdio.h") = 2
    /\ Count(included, "windows.h") = 1

\* C6: from the end of the header on, the disabled warnings are those of
\* the header's entry plus 4326 when _WINDOWS was defined on entry, and
\* exactly those of the entry otherwise.
C6_WarningDisabledIffWindows ==
    (AtExit \/ Processed) =>
        disabled = entry.disabled \cup
                      (IF EntryWin THEN {VoidMainWarning} ELSE {})

\* text of the translation unit after the header, 4326 disabled by the
\* header and another warning disabled from the command line
C6_Witness ==
    /\ Processed
    /\ EntryWin
    /\ steps >= 2
    /\ entry.disabled = {4996}
    /\ disabled = {4326, 4996}

\* C7: every #include "SmartCL.h" after the first leaves the macro table,
\* the included files, the disabled warnings and the emitted tokens as
\* they are and opens no file.
C7_IncludeIdempotent ==
    [][(Processed /\ nIncl' = nIncl + 1) =>
          UNCHANGED <<macros, included, disabled, out, where, line, once>>]_vars

\* the header included twice with _WINDOWS defined, kernel undefined by the
\* translation unit in between and not defined again
C7_Witness ==
    /\ Processed
    /\ nIncl = 2
    /\ EntryWin
    /\ ~macros["kernel"].def
    /\ macros["global"].by = "header"

\* C8: while <windows.h> or <stdio.h> is processed on behalf of the header,
\* none of kernel, global, local has a definition made by the header.
C8_MacrosAfterSystemHeaders ==
    (where \in SysHeaders /\ line # 0) =>
        \A q \in Qualifiers : ~(macros[q].def /\ macros[q].by = "header")

\* inside <stdio.h> opened by line 7, an occurrence of kernel in the system
\* header's text having passed through unreplaced
C8_Witness ==
    /\ where = "stdio.h"
    /\ line = 7
    /\ out = <<[tok |-> "kernel", from |-> "stdio.h"]>>

\* C9: WIN32_LEAN_AND_MEAN is defined for the whole of <windows.h>, and is
\* still defined at the end of the header when _WINDOWS was defined on
\* entry.
C9_LeanBeforeWindows ==
    /\ where = "windows.h" => macros["WIN32_LEAN_AND_MEAN"].def
    /\ (AtExit /\ EntryWin) => macros["WIN32_LEAN_AND_MEAN"].def

\* inside <windows.h>, WIN32_LEAN_AND_MEAN defined by the header and not
\* before
C9_Witness ==
    /\ where = "windows.h"
    /\ ~entry.macros["WIN32_LEAN_AND_MEAN"].def
    /\ macros["WIN32_LEAN_AND_MEAN"].by = "header"

NoneDefinedAtEntry == \A q \in Qualifiers : ~entry.macros[q].def

\* C10: entered with none of kernel, global, local defined, the header ends
\* with all three defined when _WINDOWS was defined on entry and with none
\* defined otherwise.
C10_AllOrNothing ==
    (AtExit /\ NoneDefinedAtEntry) =>
        IF EntryWin
        THEN \A q \in Qualifiers : macros[q].def
        ELSE \A q \in Qualifiers : ~macros[q].def

\* the end of the header with all three defined, _WINDOWS having been
\* defined by the translation unit itself
C10_Witness ==
    /\ AtExit
    /\ NoneDefinedAtEntry
    /\ entry.macros["_WINDOWS"].by = "tu"
    /\ \A q \in Qualifiers : macros[q].by = "header"

====
